---- MODULE Spec2Model ----
(***************************************************************************)
(* Model of src/app.py: the ingestion function load_data, the filter bar   *)
(* and filter stage, the KPI row and the shutdown-reason distribution.     *)
(*                                                                         *)
(* A cell of a data frame is a record.  Text is kept as a body plus a flag *)
(* that says whether the text carries surrounding whitespace, so that      *)
(* str.strip() changes a value and a name lookup on an unstripped header   *)
(* misses.  A whitespace-only string is Padded("").  Timestamps are hours  *)
(* since 2024-01-01 00:00, so that the calendar day is val \div 24.        *)
(***************************************************************************)
EXTENDS Integers, Sequences, FiniteSets, TLC

VARIABLES file, pc, df, err, sel, filtered_df, kpi, reason_counts

vars == <<file, pc, df, err, sel, filtered_df, kpi, reason_counts>>

(***************************************************************************)
(* Cells                                                                   *)
(***************************************************************************)
NaN == [kind |-> "nan", pad |-> FALSE, body |-> "", val |-> 0]

NaT == [kind |-> "nat", pad |-> FALSE, body |-> "", val |-> 0]

Str(b) == [kind |-> "str", pad |-> FALSE, body |-> b, val |-> 0]

Padded(b) == [kind |-> "str", pad |-> TRUE, body |-> b, val |-> 0]

Ts(h) == [kind |-> "ts", pad |-> FALSE, body |-> "", val |-> h]

Num(n) == [kind |-> "num", pad |-> FALSE, body |-> "", val |-> n]

\* Series.isna / notna
isna(c) == c.kind \in {"nan", "nat"}

notna(c) == ~isna(c)

\* Series.astype(str): a missing value becomes the text "nan"
astype_str(c) == IF c.kind = "nan" THEN Str("nan") ELSE c

\* str.lower over the vocabulary of the model
lower(c) ==
    IF c.kind # "str" THEN c
    ELSE [c EXCEPT !.body =
            CASE c.body = "Other" -> "other"
              [] c.body = "OTHER" -> "other"
              [] c.body = "Other Issue" -> "other issue"
              [] c.body = "Pump" -> "pump"
              [] c.body = "Leak" -> "leak"
              [] OTHER -> c.body]

\* str.strip: removes the surrounding whitespace
strip(c) == IF c.kind = "str" THEN [c EXCEPT !.pad = FALSE] ELSE c

(***************************************************************************)
(* Data frames: columns is the sequence of header names, rows the sequence *)
(* of rows, each a sequence of cells aligned with columns.                 *)
(***************************************************************************)
HasCol(d, name) == \E i \in 1..Len(d.columns) : d.columns[i] = Str(name)

ColIndex(d, name) ==
    CHOOSE i \in 1..Len(d.columns) :
        /\ d.columns[i] = Str(name)
        /\ \A j \in 1..(i - 1) : d.columns[j] # Str(name)

\* df[name]
Col(d, name) ==
    LET i == ColIndex(d, name) IN [r \in 1..Len(d.rows) |-> d.rows[r][i]]

\* df[name][r]
Cell(d, r, name) == d.rows[r][ColIndex(d, name)]

\* df[name] = vals  (replaces the column, or appends a new one)
SetCol(d, name, vals) ==
    IF HasCol(d, name)
    THEN LET i == ColIndex(d, name)
         IN [d EXCEPT !.rows =
                [r \in 1..Len(d.rows) |-> [d.rows[r] EXCEPT ![i] = vals[r]]]]
    ELSE [columns |-> Append(d.columns, Str(name)),
          rows |-> [r \in 1..Len(d.rows) |-> Append(d.rows[r], vals[r])]]

\* Series.fillna(value)
fillna(col, value) ==
    [r \in DOMAIN col |-> IF isna(col[r]) THEN value ELSE col[r]]

\* df.columns = df.columns.str.strip()
StripColumns(d) ==
    [d EXCEPT !.columns = [i \in 1..Len(d.columns) |-> strip(d.columns[i])]]

(***************************************************************************)
(* load_data, CSV branch                                                   *)
(***************************************************************************)
\* pd.read_csv / pd.read_excel: the file's header row and data rows; an
\* empty cell is read as NaN
read_file(f) == [columns |-> f.columns, rows |-> f.rows]

\* DATA RECOVERY (Dates): fill a missing "Shutdown Date/Time" from "Created"
RecoverDates(d) ==
    IF HasCol(d, "Created") /\ HasCol(d, "Shutdown Date/Time")
    THEN SetCol(d, "Shutdown Date/Time",
            [r \in 1..Len(d.rows) |->
                IF isna(Cell(d, r, "Shutdown Date/Time"))
                THEN Cell(d, r, "Created")
                ELSE Cell(d, r, "Shutdown Date/Time")])
    ELSE d

\* the row mask of the CSV branch
ConditionCsv(d, r) ==
    /\ strip(lower(astype_str(Cell(d, r, "ShutdownReason")))) = Str("other")
    /\ notna(Cell(d, r, "Remarks / Shutdown Reason"))
    /\ strip(astype_str(Cell(d, r, "Remarks / Shutdown Reason"))) # Str("")

\* DATA RECOVERY (Reasons), CSV branch
RecoverReasonsCsv(d) ==
    IF HasCol(d, "ShutdownReason") /\ HasCol(d, "Remarks / Shutdown Reason")
    THEN SetCol(d, "ShutdownReason",
            [r \in 1..Len(d.rows) |->
                IF ConditionCsv(d, r)
                THEN Cell(d, r, "Remarks / Shutdown Reason")
                ELSE Cell(d, r, "ShutdownReason")])
    ELSE d

\* zero-based positions removed from a CSV: C, E and J..AB
indices_to_drop == {2, 4} \cup (9..27)

RECURSIVE DropAt(_, _)
\* the elements of s whose zero-based position is not in indices_to_drop
DropAt(s, i) ==
    IF i > Len(s) THEN <<>>
    ELSE (IF (i - 1) \in indices_to_drop THEN <<>> ELSE <<s[i]>>)
         \o DropAt(s, i + 1)

\* df.drop(df.columns[existing_indices], axis=1)
DropColumns(d) ==
    [columns |-> DropAt(d.columns, 1),
     rows |-> [r \in 1..Len(d.rows) |-> DropAt(d.rows[r], 1)]]

CsvBranch(f) ==
    DropColumns(RecoverReasonsCsv(StripColumns(RecoverDates(read_file(f)))))

(***************************************************************************)
(* load_data, spreadsheet branch                                           *)
(***************************************************************************)
\* the row mask of the spreadsheet branch
ConditionExcel(d, r) ==
    /\ strip(lower(astype_str(Cell(d, r, "ShutdownReason")))) = Str("other")
    /\ notna(Cell(d, r, "Remarks / Shutdown Reason"))

RecoverReasonsExcel(d) ==
    IF HasCol(d, "ShutdownReason") /\ HasCol(d, "Remarks / Shutdown Reason")
    THEN SetCol(d, "ShutdownReason",
            [r \in 1..Len(d.rows) |->
                IF ConditionExcel(d, r)
                THEN Cell(d, r, "Remarks / Shutdown Reason")
                ELSE Cell(d, r, "ShutdownReason")])
    ELSE d

ExcelBranch(f) == RecoverReasonsExcel(StripColumns(read_file(f)))

\* the table after the format-specific part and the common header strip
Reconciled(f) ==
    StripColumns(IF f.fmt = "csv" THEN CsvBranch(f) ELSE ExcelBranch(f))

(***************************************************************************)
(* load_data, common part                                                  *)
(***************************************************************************)
\* the columns load_data reads by name without a guard, in the order of
\* the reads (lines 127, 128, 129, 138, 139)
RequiredColumns ==
    <<"Shutdown Date/Time", "Start Up Date/Time", "Downtime (Hrs)",
      "Site", "Well">>

\* the column whose lookup raises KeyError, "" when none does
KeyErrorColumn(d) ==
    IF \A i \in 1..Len(RequiredColumns) : HasCol(d, RequiredColumns[i])
    THEN ""
    ELSE RequiredColumns[
            CHOOSE i \in 1..Len(RequiredColumns) :
                /\ ~HasCol(d, RequiredColumns[i])
                /\ \A j \in 1..(i - 1) : HasCol(d, RequiredColumns[j])]

\* pd.to_datetime(dayfirst=True, errors="coerce") over the date texts of
\* the model: DD/MM/YYYY is read day first, unparsable text becomes NaT
to_datetime(c) ==
    IF c.kind = "ts" THEN c
    ELSE IF c.kind # "str" \/ c.pad THEN NaT
    ELSE CASE c.body = "2024-01-01" -> Ts(0)
           [] c.body = "2024-02-10" -> Ts(40 * 24)
           [] c.body = "05/03/2024" -> Ts(64 * 24)
           [] c.body = "05/03/2024 13:00" -> Ts(64 * 24 + 13)
           [] c.body = "06/03/2024" -> Ts(65 * 24)
           [] OTHER -> NaT

\* pd.to_numeric(errors="coerce") over the number texts of the model
to_numeric(c) ==
    IF c.kind = "num" THEN c
    ELSE IF c.kind # "str" \/ c.pad THEN NaN
    ELSE CASE c.body = "0" -> Num(0)
           [] c.body = "10" -> Num(10)
           [] c.body = "12" -> Num(12)
           [] c.body = "24" -> Num(24)
           [] c.body = "30" -> Num(30)
           [] OTHER -> NaN

\* 2. Process Dates and Numerics
ParseTypes(d) ==
    LET d1 == SetCol(d, "Shutdown Date/Time",
                [r \in 1..Len(d.rows) |->
                    to_datetime(Cell(d, r, "Shutdown Date/Time"))])
        d2 == SetCol(d1, "Start Up Date/Time",
                [r \in 1..Len(d.rows) |->
                    to_datetime(Cell(d1, r, "Start Up Date/Time"))])
    IN SetCol(d2, "Downtime (Hrs)",
            [r \in 1..Len(d.rows) |->
                to_numeric(Cell(d2, r, "Downtime (Hrs)"))])

\* Series.min() of a timestamp column that has a non-null value
MinTs(col) ==
    CHOOSE c \in {col[r] : r \in {q \in DOMAIN col : notna(col[q])}} :
        \A r \in DOMAIN col : notna(col[r]) => c.val <= col[r].val

\* Series.max() of a timestamp column that has a non-null value
MaxTs(col) ==
    CHOOSE c \in {col[r] : r \in {q \in DOMAIN col : notna(col[q])}} :
        \A r \in DOMAIN col : notna(col[r]) => c.val >= col[r].val

\* ImputeDates as a dropna: the rows without a shutdown date are removed
ImputeDates_DropRows(d) ==
    LET i == ColIndex(d, "Shutdown Date/Time")
    IN [d EXCEPT !.rows = SelectSeq(d.rows, LAMBDA row : notna(row[i]))]

\* ImputeDates filling with the latest date
ImputeDates_Max(d) ==
    IF \E r \in 1..Len(d.rows) : notna(Cell(d, r, "Shutdown Date/Time"))
    THEN SetCol(d, "Shutdown Date/Time",
            fillna(Col(d, "Shutdown Date/Time"),
                   MaxTs(Col(d, "Shutdown Date/Time"))))
    ELSE d

\* 3. Fill blanks: a shutdown date that is still NaT gets the minimum date
ImputeDates(d) ==
    IF \E r \in 1..Len(d.rows) : notna(Cell(d, r, "Shutdown Date/Time"))
    THEN SetCol(d, "Shutdown Date/Time",
            fillna(Col(d, "Shutdown Date/Time"),
                   MinTs(Col(d, "Shutdown Date/Time"))))
    ELSE d

\* FillSentinels with the fallback text for a missing reason cell too
FillSentinels_OneReasonText(d) ==
    LET d1 == SetCol(d, "Site", fillna(Col(d, "Site"), Str("Unknown Site")))
        d2 == SetCol(d1, "Well", fillna(Col(d1, "Well"), Str("Unknown Well")))
        d3 == IF HasCol(d2, "ShutdownReason")
              THEN SetCol(d2, "ShutdownReason",
                      fillna(Col(d2, "ShutdownReason"), Str("Unknown")))
              ELSE SetCol(d2, "ShutdownReason",
                      [r \in 1..Len(d2.rows) |-> Str("Unknown")])
    IN IF HasCol(d3, "Alert")
       THEN SetCol(d3, "Alert", fillna(Col(d3, "Alert"), Str("No Alert")))
       ELSE d3

\* the sentinel fills of Site, Well, ShutdownReason and Alert
FillSentinels(d) ==
    LET d1 == SetCol(d, "Site", fillna(Col(d, "Site"), Str("Unknown Site")))
        d2 == SetCol(d1, "Well", fillna(Col(d1, "Well"), Str("Unknown Well")))
        d3 == IF HasCol(d2, "ShutdownReason")
              THEN SetCol(d2, "ShutdownReason",
                      fillna(Col(d2, "ShutdownReason"),
                             Str("Unknown / Not Reported")))
              ELSE SetCol(d2, "ShutdownReason",
                      [r \in 1..Len(d2.rows) |-> Str("Unknown")])
    IN IF HasCol(d3, "Alert")
       THEN SetCol(d3, "Alert", fillna(Col(d3, "Alert"), Str("No Alert")))
       ELSE d3

\* pd.cut(x, [-1, 1, 5, 24, 1e6], labels=...): right-closed intervals
cut(c) ==
    IF c.kind # "num" THEN NaN
    ELSE IF c.val > -1 /\ c.val <= 1 THEN Str("0-1 hr")
    ELSE IF c.val > 1 /\ c.val <= 5 THEN Str("1-5 hrs")
    ELSE IF c.val > 5 /\ c.val <= 24 THEN Str("5-24 hrs")
    ELSE IF c.val > 24 /\ c.val <= 1000000 THEN Str(">24 hrs")
    ELSE NaN

\* dt.to_period("M").astype(str) for the days of early 2024
to_period_M(c) ==
    IF c.kind # "ts" THEN Str("NaT")
    ELSE IF c.val \div 24 < 31 THEN Str("2024-01")
    ELSE IF c.val \div 24 < 60 THEN Str("2024-02")
    ELSE IF c.val \div 24 < 91 THEN Str("2024-03")
    ELSE Str("2024-04")

\* 4. Create Categorical Buckets and 5. Extract Month
DeriveFeatures(d) ==
    LET d1 == SetCol(d, "Downtime Bucket",
                [r \in 1..Len(d.rows) |-> cut(Cell(d, r, "Downtime (Hrs)"))])
    IN SetCol(d1, "Shutdown Month",
            [r \in 1..Len(d1.rows) |->
                to_period_M(Cell(d1, r, "Shutdown Date/Time"))])

\* the table load_data returns when no lookup raises
load_data(f) ==
    DeriveFeatures(FillSentinels(ImputeDates(ParseTypes(Reconciled(f)))))

(***************************************************************************)
(* Filter bar and filter stage                                             *)
(***************************************************************************)
unique(col) == {col[r] : r \in DOMAIN col}

\* dt.date: the calendar day of a timestamp
date(c) == c.val \div 24

site_options(d) == {Str("All Sites")} \cup unique(Col(d, "Site"))

well_options(d) == {Str("All Wells")} \cup unique(Col(d, "Well"))

reason_options(d) ==
    {Str("All Reasons")} \cup
    (IF HasCol(d, "ShutdownReason")
     THEN {astype_str(x) : x \in unique(Col(d, "ShutdownReason"))}
     ELSE {})

alert_options(d) ==
    {Str("All Alerts")} \cup
    (IF HasCol(d, "Alert")
     THEN {astype_str(x) : x \in unique(Col(d, "Alert"))}
     ELSE {})

\* the page stops before the filters when the table has no valid date
HasValidDates(d) ==
    {r \in 1..Len(d.rows) : notna(Cell(d, r, "Shutdown Date/Time"))} # {}

min_date(d) == date(MinTs(Col(d, "Shutdown Date/Time")))

max_date(d) == date(MaxTs(Col(d, "Shutdown Date/Time")))

\* the selection of the first run of the page
DefaultSelection(d) ==
    [site_f |-> Str("All Sites"), well_f |-> Str("All Wells"),
     reason_f |-> Str("All Reasons"), alert_f |-> Str("All Alerts"),
     date_f |-> <<min_date(d), max_date(d)>>]

\* what the date picker can hold: a started range (one date) or a range
date_choices(d) ==
    LET days == {date(c) : c \in unique(Col(d, "Shutdown Date/Time"))}
    IN {<<min_date(d)>>, <<min_date(d), max_date(d)>>}
       \cup {<<a, a>> : a \in days}

BySite(d, s) ==
    IF s.site_f # Str("All Sites")
    THEN LET i == ColIndex(d, "Site")
         IN [d EXCEPT !.rows = SelectSeq(d.rows, LAMBDA row : row[i] = s.site_f)]
    ELSE d

ByWell(d, s) ==
    IF s.well_f # Str("All Wells")
    THEN LET i == ColIndex(d, "Well")
         IN [d EXCEPT !.rows = SelectSeq(d.rows, LAMBDA row : row[i] = s.well_f)]
    ELSE d

ByReason(d, s) ==
    IF s.reason_f # Str("All Reasons") /\ HasCol(d, "ShutdownReason")
    THEN LET i == ColIndex(d, "ShutdownReason")
         IN [d EXCEPT !.rows = SelectSeq(d.rows, LAMBDA row : astype_str(row[i]) = s.reason_f)]
    ELSE d

ByAlert(d, s) ==
    IF s.alert_f # Str("All Alerts") /\ HasCol(d, "Alert")
    THEN LET i == ColIndex(d, "Alert")
         IN [d EXCEPT !.rows = SelectSeq(d.rows, LAMBDA row : astype_str(row[i]) = s.alert_f)]
    ELSE d

\* ByDate comparing the timestamp itself with the end date
ByDate_Timestamp(d, s) ==
    IF Len(s.date_f) = 2
    THEN LET i == ColIndex(d, "Shutdown Date/Time")
         IN [d EXCEPT !.rows = SelectSeq(d.rows, LAMBDA row :
                /\ row[i].val >= s.date_f[1] * 24
                /\ row[i].val <= s.date_f[2] * 24)]
    ELSE d

ByDate(d, s) ==
    IF Len(s.date_f) = 2
    THEN LET i == ColIndex(d, "Shutdown Date/Time")
         IN [d EXCEPT !.rows = SelectSeq(d.rows, LAMBDA row :
                /\ date(row[i]) >= s.date_f[1]
                /\ date(row[i]) <= s.date_f[2])]
    ELSE d

\* APPLY FILTERS: the five steps in the order of the page
ApplyFilters(d, s) ==
    ByDate(ByAlert(ByReason(ByWell(BySite(d, s), s), s), s), s)

(***************************************************************************)
(* KPI row                                                                 *)
(***************************************************************************)
RECURSIVE SumVals(_)
\* Series.sum(): the missing values are skipped
SumVals(s) ==
    IF s = <<>> THEN 0
    ELSE (IF Head(s).kind = "num" THEN Head(s).val ELSE 0) + SumVals(Tail(s))

\* Mean dividing by the number of rows
Mean_AllRows(col) == [num |-> SumVals(col), den |-> Len(col)]

\* Series.mean() as the fraction num / den; den = 0 stands for NaN
Mean(col) ==
    [num |-> SumVals(col),
     den |-> Cardinality({r \in DOMAIN col : notna(col[r])})]

\* (Series > 24).sum(): a comparison with a missing value is False
Above24(col) ==
    Cardinality({r \in DOMAIN col : col[r].kind = "num" /\ col[r].val > 24})

KpiRow(d) ==
    LET hrs == Col(d, "Downtime (Hrs)")
    IN [shutdowns |-> Len(d.rows),
        downtime |-> SumVals(hrs),
        avg |-> Mean(hrs),
        above24 |-> Above24(hrs),
        wells |-> Cardinality({c \in unique(Col(d, "Well")) : notna(c)})]

(***************************************************************************)
(* Shutdown reason distribution                                            *)
(***************************************************************************)
top_n == 15

RECURSIVE FirstSeen(_, _)
\* the distinct non-null values of s in the order of first occurrence
FirstSeen(s, acc) ==
    IF s = <<>> THEN acc
    ELSE FirstSeen(Tail(s),
            IF isna(Head(s)) \/ \E i \in 1..Len(acc) : acc[i] = Head(s)
            THEN acc ELSE Append(acc, Head(s)))

\* x put into a sequence sorted by descending Count, after its equals
InsertDesc(sorted, x) ==
    LET k == Cardinality({i \in 1..Len(sorted) : sorted[i].Count >= x.Count})
    IN SubSeq(sorted, 1, k) \o <<x>> \o SubSeq(sorted, k + 1, Len(sorted))

RECURSIVE SortDesc(_, _)
SortDesc(s, acc) ==
    IF s = <<>> THEN acc ELSE SortDesc(Tail(s), InsertDesc(acc, Head(s)))

\* Series.value_counts().reset_index(): one row per value, descending count
value_counts(col) ==
    LET vals == FirstSeen(col, <<>>)
    IN SortDesc([i \in 1..Len(vals) |->
                    [ShutdownReason |-> vals[i],
                     Count |-> Cardinality({r \in DOMAIN col : col[r] = vals[i]})]],
                <<>>)

RECURSIVE SumCounts(_)
SumCounts(s) == IF s = <<>> THEN 0 ELSE Head(s).Count + SumCounts(Tail(s))

\* ReasonDistribution without the sort of value_counts
ReasonDistribution_Unsorted(d) ==
    IF d.rows # <<>> /\ HasCol(d, "ShutdownReason")
    THEN LET col == Col(d, "ShutdownReason")
             vals == FirstSeen(col, <<>>)
             rc == [i \in 1..Len(vals) |->
                      [ShutdownReason |-> vals[i],
                       Count |-> Cardinality({r \in DOMAIN col : col[r] = vals[i]})]]
             top_15 == SubSeq(rc, 1, top_n)
             other_count == SumCounts(SubSeq(rc, top_n + 1, Len(rc)))
         IN IF Len(rc) > top_n /\ other_count > 0
            THEN top_15 \o <<[ShutdownReason |-> Str("Misc / Low Freq Reasons"),
                             Count |-> other_count]>>
            ELSE rc
    ELSE <<>>

\* the rows handed to the pie chart; <<>> when the chart is not drawn
ReasonDistribution(d) ==
    IF d.rows # <<>> /\ HasCol(d, "ShutdownReason")
    THEN LET rc == value_counts(Col(d, "ShutdownReason"))
             top_15 == SubSeq(rc, 1, top_n)
             other_count == SumCounts(SubSeq(rc, top_n + 1, Len(rc)))
         IN IF Len(rc) > top_n /\ other_count > 0
            THEN top_15 \o <<[ShutdownReason |-> Str("Misc / Low Freq Reasons"),
                             Count |-> other_count]>>
            ELSE rc
    ELSE <<>>

(***************************************************************************)
(* The uploaded files of the model                                         *)
(***************************************************************************)
MaxRows == 2

MaxSeries == 3

MaxReasons == 17

\* the layout of the scenario of the specification
ScenarioLayout ==
    <<"Created", "Site", "Well", "ShutdownReason",
      "Remarks / Shutdown Reason", "Alert", "Shutdown Date/Time",
      "Downtime (Hrs)">>

\* a layout whose columns C and E are the ones the CSV branch removes
ExportLayout ==
    <<"Site", "Well", "Created", "ShutdownReason", "Modified",
      "Shutdown Date/Time", "Start Up Date/Time", "Downtime (Hrs)",
      "Remarks / Shutdown Reason">>

AlertLayout ==
    <<"Site", "Well", "Created", "ShutdownReason", "Modified",
      "Shutdown Date/Time", "Start Up Date/Time", "Downtime (Hrs)", "Alert">>

\* ExportLayout followed by columns J and K
WideLayout == ExportLayout \o <<"Editor", "Alert">>

NoReasonLayout ==
    <<"Site", "Well", "Created", "Alert", "Modified",
      "Shutdown Date/Time", "Start Up Date/Time", "Downtime (Hrs)">>

\* the required columns alone
CompactLayout ==
    <<"Site", "Well", "Shutdown Date/Time", "Start Up Date/Time",
      "Downtime (Hrs)">>

NoShutdownLayout ==
    <<"Site", "Well", "Created", "ShutdownReason", "Modified",
      "Alert", "Start Up Date/Time", "Downtime (Hrs)",
      "Remarks / Shutdown Reason">>

NoDowntimeLayout ==
    <<"Site", "Well", "Created", "ShutdownReason", "Modified",
      "Shutdown Date/Time", "Start Up Date/Time", "Alert",
      "Remarks / Shutdown Reason">>

\* a layout whose column E is the reason
ShiftedLayout ==
    <<"Site", "Well", "Created", "Alert", "ShutdownReason",
      "Shutdown Date/Time", "Start Up Date/Time", "Downtime (Hrs)">>

Layouts ==
    {ScenarioLayout, ExportLayout, AlertLayout, WideLayout, NoReasonLayout,
     ShiftedLayout, CompactLayout, NoShutdownLayout, NoDowntimeLayout}

Formats == {"csv", "xlsx"}

\* a row of a source, by column name
BaseRow ==
    [n \in {"Site", "Well", "Created", "ShutdownReason",
            "Remarks / Shutdown Reason", "Alert", "Shutdown Date/Time",
            "Start Up Date/Time", "Downtime (Hrs)"} |->
        CASE n = "Site" -> Str("SiteA")
          [] n = "Well" -> Str("W1")
          [] n = "Created" -> Str("2024-02-10")
          [] n = "ShutdownReason" -> Str("Pump")
          [] n = "Remarks / Shutdown Reason" -> NaN
          [] n = "Alert" -> Str("High")
          [] n = "Shutdown Date/Time" -> Str("05/03/2024 13:00")
          [] n = "Start Up Date/Time" -> NaN
          [] n = "Downtime (Hrs)" -> Str("12")]

\* the row of the scenario of the specification
ScenarioRow ==
    [BaseRow EXCEPT !["Created"] = Str("2024-01-01"),
                    !["ShutdownReason"] = Str("Other"),
                    !["Remarks / Shutdown Reason"] = Str("pump failure"),
                    !["Alert"] = NaN,
                    !["Shutdown Date/Time"] = NaN]

\* the file with the given format, header row and rows; padded headers
\* carry surrounding whitespace
MakeFile(fmt, layout, padded, lrows) ==
    [fmt |-> fmt,
     columns |-> [i \in 1..Len(layout) |->
                    IF padded THEN Padded(layout[i]) ELSE Str(layout[i])],
     rows |-> [r \in 1..Len(lrows) |->
                [i \in 1..Len(layout) |->
                    IF layout[i] \in DOMAIN lrows[r]
                    THEN lrows[r][layout[i]] ELSE Str("n/a")]]]

\* the sequences over S of length at most n
SeqUpTo(S, n) == UNION {[1..k -> S] : k \in 0..n}

ReasonRows ==
    {[BaseRow EXCEPT !["ShutdownReason"] = a,
                     !["Remarks / Shutdown Reason"] = b] :
        a \in {NaN, Str("Other"), Padded("OTHER"), Str("Other Issue"),
               Str("Pump")},
        b \in {NaN, Padded(""), Str("pump failure")}}

DateRows ==
    {[BaseRow EXCEPT !["Created"] = a, !["Shutdown Date/Time"] = b] :
        a \in {NaN, Str("2024-01-01")},
        b \in {NaN, Str("05/03/2024"), Str("06/03/2024"), Str("garbage")}}

DowntimeRows ==
    {[BaseRow EXCEPT !["Downtime (Hrs)"] = a] :
        a \in {NaN, Str("10"), Str("24"), Str("30"), Str("abc")}}

\* rows that differ from BaseRow in one field the page filters on and in
\* the downtime, and one that differs in all of them
MixedRows ==
    {BaseRow,
     [BaseRow EXCEPT !["Site"] = NaN, !["Downtime (Hrs)"] = Str("10")],
     [BaseRow EXCEPT !["ShutdownReason"] = NaN, !["Downtime (Hrs)"] = NaN],
     [BaseRow EXCEPT !["Alert"] = NaN, !["Downtime (Hrs)"] = Str("abc")],
     [BaseRow EXCEPT !["Shutdown Date/Time"] = Str("06/03/2024"),
                     !["Downtime (Hrs)"] = Str("24")],
     [BaseRow EXCEPT !["Site"] = Str("SiteB"), !["Well"] = Str("W2"),
                     !["ShutdownReason"] = Str("Leak"), !["Alert"] = NaN,
                     !["Shutdown Date/Time"] = Str("06/03/2024"),
                     !["Downtime (Hrs)"] = Str("30")]}

\* MixedRows and a row with every categorical field missing
SentinelRows ==
    MixedRows \cup
    {[BaseRow EXCEPT !["Site"] = NaN, !["Well"] = NaN,
                     !["ShutdownReason"] = NaN, !["Alert"] = NaN]}

\* the sources with one column family varied, and every layout in every
\* format with plain and with padded headers
IsFile(f) ==
    \/ \E fmt \in Formats, rs \in SeqUpTo(ReasonRows, MaxRows) :
        f = MakeFile(fmt, ExportLayout, FALSE, rs)
    \/ \E fmt \in Formats, rs \in SeqUpTo(DateRows, MaxSeries) :
        f = MakeFile(fmt, ExportLayout, FALSE, rs)
    \/ \E fmt \in Formats, rs \in SeqUpTo(DowntimeRows, MaxSeries) :
        f = MakeFile(fmt, ExportLayout, FALSE, rs)
    \/ \E fmt \in Formats, l \in {AlertLayout, NoReasonLayout},
          rs \in SeqUpTo(SentinelRows, MaxRows) :
        f = MakeFile(fmt, l, FALSE, rs)
    \/ \E fmt \in Formats, l \in Layouts, p \in BOOLEAN,
          rs \in {<<>>, <<ScenarioRow>>, <<BaseRow>>} :
        f = MakeFile(fmt, l, p, rs)

\* the sources whose page is followed through its reruns: a CSV export
\* with mixed rows, a spreadsheet with a downtime series
IsPageFile(f) ==
    \/ \E rs \in SeqUpTo(MixedRows, MaxRows) :
        f = MakeFile("csv", AlertLayout, FALSE, rs)
    \/ \E rs \in SeqUpTo(DowntimeRows, MaxSeries) :
        f = MakeFile("xlsx", ExportLayout, FALSE, rs)

\* reason texts for sources with many distinct reasons
ReasonNames ==
    <<"R01", "R02", "R03", "R04", "R05", "R06", "R07", "R08", "R09", "R10",
      "R11", "R12", "R13", "R14", "R15", "R16", "R17", "R18", "R19", "R20">>

\* n rows with n distinct reasons, followed by the rows that repeat the
\* reasons listed in again
ManyReasonsRows(n, again) ==
    [r \in 1..(n + Len(again)) |->
        [BaseRow EXCEPT !["ShutdownReason"] =
            Str(ReasonNames[IF r <= n THEN r ELSE again[r - n]])]]

\* the repeats that may follow n distinct reasons: none, one or two
Repeats(n) ==
    {<<>>} \cup {<<a>> : a \in 1..n} \cup {<<a, b>> : a \in 1..n, b \in 1..n}

IsManyReasonsFile(f) ==
    \E fmt \in Formats, n \in 0..MaxReasons :
        \E again \in Repeats(n) :
            f = MakeFile(fmt, ExportLayout, FALSE, ManyReasonsRows(n, again))

(***************************************************************************)
(* The page: upload, load_data, filter bar, filter stage, KPI row, charts  *)
(***************************************************************************)
NoFrame == [columns |-> <<>>, rows |-> <<>>]

NoSelection ==
    [site_f |-> NaN, well_f |-> NaN, reason_f |-> NaN, alert_f |-> NaN,
     date_f |-> <<>>]

NoKpi ==
    [shutdowns |-> 0, downtime |-> 0, avg |-> [num |-> 0, den |-> 0],
     above24 |-> 0, wells |-> 0]

Blank ==
    /\ pc = "uploaded"
    /\ df = NoFrame
    /\ err = ""
    /\ sel = NoSelection
    /\ filtered_df = NoFrame
    /\ kpi = NoKpi
    /\ reason_counts = <<>>

Init == IsFile(file) /\ Blank

InitPage == IsPageFile(file) /\ Blank

InitDist == IsManyReasonsFile(file) /\ Blank

\* load_data returns the canonical table
LoadData ==
    /\ pc = "uploaded"
    /\ KeyErrorColumn(Reconciled(file)) = ""
    /\ df' = load_data(file)
    /\ pc' = "loaded"
    /\ UNCHANGED <<file, err, sel, filtered_df, kpi, reason_counts>>

\* load_data raises KeyError on a column it reads by name
LoadDataKeyError ==
    /\ pc = "uploaded"
    /\ KeyErrorColumn(Reconciled(file)) # ""
    /\ err' = KeyErrorColumn(Reconciled(file))
    /\ pc' = "failed"
    /\ UNCHANGED <<file, df, sel, filtered_df, kpi, reason_counts>>

\* st.error and st.stop: no valid date, or an empty file
RenderStop ==
    /\ pc = "loaded"
    /\ ~HasValidDates(df)
    /\ pc' = "stopped"
    /\ UNCHANGED <<file, df, err, sel, filtered_df, kpi, reason_counts>>

\* the rest of one run of the script under selection s
Render(s) ==
    /\ HasValidDates(df)
    /\ sel' = s
    /\ filtered_df' = ApplyFilters(df, s)
    /\ kpi' = KpiRow(filtered_df')
    /\ reason_counts' = ReasonDistribution(filtered_df')
    /\ pc' = "rendered"
    /\ UNCHANGED <<file, df, err>>

\* the first run after the upload: every widget holds its default
FirstRender ==
    /\ pc = "loaded"
    /\ Render(DefaultSelection(df))

\* a rerun after the user changed one widget; load_data is cached
Rerender ==
    /\ pc = "rendered"
    /\ \/ \E v \in site_options(df) \ {sel.site_f} :
            Render([sel EXCEPT !.site_f = v])
       \/ \E v \in well_options(df) \ {sel.well_f} :
            Render([sel EXCEPT !.well_f = v])
       \/ \E v \in reason_options(df) \ {sel.reason_f} :
            Render([sel EXCEPT !.reason_f = v])
       \/ \E v \in alert_options(df) \ {sel.alert_f} :
            Render([sel EXCEPT !.alert_f = v])
       \/ \E v \in date_choices(df) \ {sel.date_f} :
            Render([sel EXCEPT !.date_f = v])

Next == LoadData \/ LoadDataKeyError \/ RenderStop \/ FirstRender

Spec == Init /\ [][Next]_vars

NextPage == LoadData \/ FirstRender \/ Rerender

SpecPage == InitPage /\ [][NextPage]_vars

NextDist == LoadData \/ FirstRender

SpecDist == InitDist /\ [][NextDist]_vars

(***************************************************************************)
(* Properties                                                              *)
(***************************************************************************)
\* the source as read, with trimmed header names
Source == StripColumns(read_file(file))

\* load_data has returned a table
Loaded == pc \in {"loaded", "rendered", "stopped"}

Rows == 1..Len(df.rows)

ScenarioFile == MakeFile("csv", ScenarioLayout, FALSE, <<ScenarioRow>>)

\* C1: for the scenario CSV, load_data completes and returns one row whose
\* reason is "pump failure" and whose shutdown timestamp is the Created
\* value, 2024-01-01.
C1_ScenarioRow ==
    (file = ScenarioFile /\ pc # "uploaded") =>
        /\ Loaded
        /\ Len(df.rows) = 1
        /\ Cell(df, 1, "ShutdownReason") = Str("pump failure")
        /\ Cell(df, 1, "Shutdown Date/Time") = Ts(0)

\* C2: the table load_data returns has as many rows as the raw file.
C2_RowCountPreserved == Loaded => Len(df.rows) = Len(file.rows)

\* a returned table of three rows, one of them with an unparsable date
C2_Witness ==
    /\ Loaded
    /\ Len(df.rows) = 3
    /\ \E r \in 1..3 : Cell(Source, r, "Shutdown Date/Time") = Str("garbage")

\* the reason of row r after a recovery that requires a non-blank remark
ExpectedReason(r) ==
    LET reason == Cell(Source, r, "ShutdownReason")
        remark == Cell(Source, r, "Remarks / Shutdown Reason")
        generic == strip(lower(astype_str(reason))) = Str("other")
        nonempty == notna(remark) /\ strip(remark) # Str("")
    IN IF generic /\ nonempty THEN remark
       ELSE IF isna(reason) THEN Str("Unknown / Not Reported")
       ELSE reason

\* C3: in both branches the reason is replaced by the remark if and only
\* if the reason, lowercased and trimmed, is "other" and the remark is
\* neither null nor blank; every other row keeps its reason.
C3_ReasonRecovery ==
    (Loaded /\ HasCol(Source, "ShutdownReason")
        /\ HasCol(Source, "Remarks / Shutdown Reason")
        /\ HasCol(Reconciled(file), "ShutdownReason")) =>
        \A r \in Rows : Cell(df, r, "ShutdownReason") = ExpectedReason(r)

\* the shutdown timestamps as parsed, before the imputation
Parsed ==
    LET d == Reconciled(file)
    IN [r \in 1..Len(d.rows) |->
            to_datetime(Cell(d, r, "Shutdown Date/Time"))]

\* C4: with at least one parsable shutdown timestamp, no row of the
\* returned table has a null timestamp: a row whose timestamp did not parse
\* holds the minimum of the parsed ones, the others keep their own.
C4_DateImputation ==
    Loaded =>
        LET p == Parsed
            out == Col(df, "Shutdown Date/Time")
        IN (\E q \in Rows : notna(p[q])) =>
            \A r \in Rows :
                /\ notna(out[r])
                /\ notna(p[r]) => out[r] = p[r]
                /\ isna(p[r]) =>
                    /\ \E q \in Rows : out[r] = p[q]
                    /\ \A q \in Rows : notna(p[q]) => out[r].val <= p[q].val

\* a row without a timestamp before the rows 06/03/2024 and 05/03/2024: it
\* holds the earlier of the two, which is not the first one parsed
C4_Witness ==
    /\ Loaded
    /\ Len(df.rows) = 3
    /\ isna(Parsed[1]) /\ Parsed[2] = Ts(65 * 24) /\ Parsed[3] = Ts(64 * 24)
    /\ Cell(df, 1, "Shutdown Date/Time") = Ts(64 * 24)

\* C5: whenever the source has a "Created" column, a row whose raw shutdown
\* cell is empty receives its Created value before parsing and a row whose
\* raw cell is not empty is unchanged, in each format and with headers that
\* carry surrounding whitespace.
C5_DateRecovery ==
    (pc # "uploaded" /\ HasCol(Source, "Created")
        /\ HasCol(Source, "Shutdown Date/Time")
        /\ HasCol(Reconciled(file), "Shutdown Date/Time")) =>
        \A r \in 1..Len(file.rows) :
            Cell(Reconciled(file), r, "Shutdown Date/Time") =
                IF isna(Cell(Source, r, "Shutdown Date/Time"))
                THEN Cell(Source, r, "Created")
                ELSE Cell(Source, r, "Shutdown Date/Time")

\* a cell is empty when it is missing or the empty text
IsEmpty(c) == isna(c) \/ c = Str("")

\* what C6 says of site and well, and that no reason is empty
SiteWellDefaults ==
    LET src == Source
    IN \A r \in Rows :
        /\ ~IsEmpty(Cell(df, r, "Site"))
        /\ ~IsEmpty(Cell(df, r, "Well"))
        /\ ~IsEmpty(Cell(df, r, "ShutdownReason"))
        /\ Cell(df, r, "Site") =
            IF isna(Cell(src, r, "Site")) THEN Str("Unknown Site")
            ELSE Cell(src, r, "Site")
        /\ Cell(df, r, "Well") =
            IF isna(Cell(src, r, "Well")) THEN Str("Unknown Well")
            ELSE Cell(src, r, "Well")

\* what C6 says of the alert cells when the table has an alert column
AlertDefaults ==
    LET src == Source
    IN HasCol(df, "Alert") =>
        \A r \in Rows :
            Cell(df, r, "Alert") =
                IF isna(Cell(src, r, "Alert")) THEN Str("No Alert")
                ELSE Cell(src, r, "Alert")

\* C6 as stated: site, well and reason are never empty; a missing site is
\* "Unknown Site", a missing well "Unknown Well", a missing reason
\* "Unknown"; alert is "No Alert" where missing when the source has an
\* alert column, and absent otherwise.
C6_AsStated ==
    Loaded =>
        /\ SiteWellDefaults
        /\ LET src == Source
           IN \A r \in Rows :
                (~HasCol(src, "ShutdownReason")
                    \/ isna(Cell(src, r, "ShutdownReason")))
                => Cell(df, r, "ShutdownReason") = Str("Unknown")
        /\ HasCol(df, "Alert") <=> HasCol(Source, "Alert")
        /\ AlertDefaults

\* C6: site, well and reason are never empty; a missing site is
\* "Unknown Site" and a missing well "Unknown Well"; a missing reason cell
\* is "Unknown / Not Reported" when the table still has a reason column
\* after the CSV column drop, and every reason is "Unknown" when it has
\* none; alert is "No Alert" where missing when the table still has an
\* alert column after the column drop, and absent otherwise.
C6_Sentinels ==
    Loaded =>
        /\ SiteWellDefaults
        /\ LET src == Source
               kept == HasCol(Reconciled(file), "ShutdownReason")
           IN \A r \in Rows :
                IF kept
                THEN isna(Cell(src, r, "ShutdownReason")) =>
                        Cell(df, r, "ShutdownReason") = Str("Unknown / Not Reported")
                ELSE Cell(df, r, "ShutdownReason") = Str("Unknown")
        /\ HasCol(df, "Alert") <=> HasCol(Reconciled(file), "Alert")
        /\ AlertDefaults

\* a returned table with a missing reason cell and a missing alert cell
C6_Witness ==
    /\ Loaded
    /\ HasCol(df, "Alert")
    /\ HasCol(Reconciled(file), "ShutdownReason")
    /\ \E r \in Rows : isna(Cell(Source, r, "ShutdownReason"))
    /\ \E r \in Rows : isna(Cell(Source, r, "Alert"))
    /\ \E r \in Rows : isna(Cell(Source, r, "Site"))

\* C7: load_data fails and returns no table when the shutdown-timestamp or
\* the downtime column is absent; when only the reason, alert and/or remark
\* columns are absent it never fails, and an absent reason column is
\* replaced by a default value.
C7_ErrorOutcome ==
    pc # "uploaded" =>
        /\ (~HasCol(Source, "Shutdown Date/Time")
                \/ ~HasCol(Source, "Downtime (Hrs)"))
            => (pc = "failed" /\ df = NoFrame)
        /\ (\A i \in 1..Len(RequiredColumns) : HasCol(Source, RequiredColumns[i]))
            => /\ pc # "failed"
               /\ ~HasCol(Source, "ShutdownReason") =>
                    \A r \in Rows : Cell(df, r, "ShutdownReason") = Str("Unknown")

\* row r of the canonical table satisfies every specified selector of s
Matches(r, s) ==
    /\ s.site_f = Str("All Sites") \/ Cell(df, r, "Site") = s.site_f
    /\ s.well_f = Str("All Wells") \/ Cell(df, r, "Well") = s.well_f
    /\ s.reason_f = Str("All Reasons")
        \/ Cell(df, r, "ShutdownReason") = s.reason_f
    /\ s.alert_f = Str("All Alerts")
        \/ (HasCol(df, "Alert") /\ Cell(df, r, "Alert") = s.alert_f)
    /\ Len(s.date_f) = 2 =>
        /\ s.date_f[1] * 24 <= Cell(df, r, "Shutdown Date/Time").val
        /\ Cell(df, r, "Shutdown Date/Time").val < (s.date_f[2] + 1) * 24

RECURSIVE RowsFrom(_, _)
\* the rows r, r+1, ... of the canonical table that satisfy s, in order
RowsFrom(r, s) ==
    IF r > Len(df.rows) THEN <<>>
    ELSE (IF Matches(r, s) THEN <<df.rows[r]>> ELSE <<>>) \o RowsFrom(r + 1, s)

Widgets == {"site_f", "well_f", "reason_f", "alert_f", "date_f"}

\* the selection s with the widgets outside W left unspecified
Restrict(s, W) ==
    [w \in Widgets |->
        IF w \in W THEN s[w]
        ELSE CASE w = "site_f" -> Str("All Sites")
               [] w = "well_f" -> Str("All Wells")
               [] w = "reason_f" -> Str("All Reasons")
               [] w = "alert_f" -> Str("All Alerts")
               [] w = "date_f" -> <<s.date_f[1]>>]

\* C8: the filter stage returns exactly the rows that satisfy all the
\* specified selectors, dates compared by inclusive calendar day, and
\* filtering by two selectors equals filtering by one and then by the
\* other, in either order.
C8_FilterConjunction ==
    pc = "rendered" =>
        /\ filtered_df.columns = df.columns
        /\ filtered_df.rows = RowsFrom(1, sel)
        /\ LET one == [v \in Widgets |-> ApplyFilters(df, Restrict(sel, {v}))]
           IN \A v \in Widgets, w \in Widgets :
                ApplyFilters(one[v], Restrict(sel, {w})) =
                    ApplyFilters(df, Restrict(sel, {v, w}))

\* two selectors are set, one of them the date range, and they keep some
\* rows and remove others; a kept row is later in its last day than 00:00
C8_Witness ==
    /\ pc = "rendered"
    /\ sel.alert_f # Str("All Alerts")
    /\ Len(sel.date_f) = 2
    /\ Len(filtered_df.rows) = 1
    /\ Len(df.rows) = 2
    /\ Cell(filtered_df, 1, "Shutdown Date/Time").val > sel.date_f[2] * 24
    /\ Len(ApplyFilters(df, Restrict(sel, {"alert_f"})).rows) = 2

\* the reasons of the filtered table and the number of rows of each
Reasons == unique(Col(filtered_df, "ShutdownReason"))

RowsOf(c) ==
    Cardinality({r \in 1..Len(filtered_df.rows) :
                    Cell(filtered_df, r, "ShutdownReason") = c})

Overflow == Str("Misc / Low Freq Reasons")

Timed ==
    {r \in 1..Len(filtered_df.rows) :
        Cell(filtered_df, r, "Downtime (Hrs)").kind = "num"}

RECURSIVE Total(_)
\* the sum of the downtime of the rows in S
Total(S) ==
    IF S = {} THEN 0
    ELSE LET r == CHOOSE x \in S : TRUE
         IN Cell(filtered_df, r, "Downtime (Hrs)").val + Total(S \ {r})

\* C10: the event count counts every row; the downtime sum and mean are
\* over the non-null downtime values only, the mean dividing by their
\* number; the count above 24 h counts the rows with a non-null downtime
\* strictly greater than 24.
C10_KpiNullSafe ==
    pc = "rendered" =>
        /\ kpi.shutdowns = Len(filtered_df.rows)
        /\ kpi.downtime = Total(Timed)
        /\ kpi.avg.num = Total(Timed)
        /\ kpi.avg.den = Cardinality(Timed)
        /\ kpi.above24 =
            Cardinality({r \in Timed :
                Cell(filtered_df, r, "Downtime (Hrs)").val >= 25})
        /\ \A r \in 1..Len(filtered_df.rows) :
            \/ r \in Timed
            \/ Cell(filtered_df, r, "Downtime (Hrs)") = NaN

\* downtime [10, null, 30]: count 3, sum 40, mean 20 over two values, one
\* row above 24 h
C10_Witness ==
    /\ pc = "rendered"
    /\ Len(filtered_df.rows) = 3
    /\ Col(filtered_df, "Downtime (Hrs)") = <<Num(10), NaN, Num(30)>>
    /\ kpi.shutdowns = 3
    /\ kpi.downtime = 40
    /\ kpi.avg.num = 20 * kpi.avg.den /\ kpi.avg.den = 2
    /\ kpi.above24 = 1

====
